---- MODULE Spec2Model ----
(***************************************************************************)
(* pyfedcamp: the reservation pipeline of src/src/pyfedcamp/reservations.py *)
(* (class Reservations).  A run constructs a Reservations object from one   *)
(* spreadsheet: process_spreadsheet, get_occupied_overnights,               *)
(* summarize_reservations and busiest_day_of_week run in that order, and    *)
(* any exception aborts the construction.  busiest_day_of_week may then be  *)
(* called again with other weights.                                         *)
(*                                                                          *)
(* The spreadsheet is the grid pd.read_excel(header=None) returns: a        *)
(* sequence of rows, each row a sequence with one cell per sheet column.    *)
(* A cell is a string (a sequence of characters), an integer, a date        *)
(* (a proleptic Gregorian ordinal, as date.toordinal(), at midnight) or     *)
(* NaN (an empty cell).  The characters are those with code points below   *)
(* 256.  read_excel also hands over as NaN a cell whose text is empty or    *)
(* one of its names for a missing value ('n/a', 'NA', 'nan', 'NULL', ...),  *)
(* so no text cell of a grid holds such a text.                             *)
(***************************************************************************)
EXTENDS Integers, Sequences, FiniteSets, TLC

\* ------------------------------------------------------------------ cells

NaN == [k |-> "nan"]
NaT == [k |-> "nat"]
Str(s) == [k |-> "str", s |-> s]
Num(n) == [k |-> "num", n |-> n]
Date(d) == [k |-> "date", d |-> d]

IsStr(c) == c.k = "str"

\* ------------------------------------------------------------------ characters

UpperCase == << "A","B","C","D","E","F","G","H","I","J","K","L","M",
                "N","O","P","Q","R","S","T","U","V","W","X","Y","Z" >>
LowerCase == << "a","b","c","d","e","f","g","h","i","j","k","l","m",
                "n","o","p","q","r","s","t","u","v","w","x","y","z" >>
Digits == << "0","1","2","3","4","5","6","7","8","9" >>

Range(f) == { f[i] : i \in DOMAIN f }

\* [A-Za-z]
IsLetter(c) == c \in Range(UpperCase) \cup Range(LowerCase)
\* \d
IsDigit(c) == c \in Range(Digits)
\* the white space of C: the space, the tab, the newline, the vertical
\* tab, the form feed and the carriage return (pandas' isspace_ascii)
AsciiSpaces == { " ", "\t", "\n", "", "\f", "\r" }

IsSpaceAscii(c) == c \in AsciiSpaces

\* \s, and the characters str.strip() removes (str.isspace): the white
\* space of C, the separators U+001C to U+001F, the next-line character
\* U+0085 and the no-break space U+00A0
IsSpace(c) == c \in AsciiSpaces \cup { "", "", "", "", "", " " }

\* the capital letters beyond Z, U+00C0 to U+00DE, and their small letters
UpperLatin == << "À","Á","Â","Ã","Ä","Å","Æ","Ç","È","É","Ê","Ë","Ì",
                 "Í","Î","Ï","Ð","Ñ","Ò","Ó","Ô","Õ","Ö","Ø","Ù","Ú",
                 "Û","Ü","Ý","Þ" >>
LowerLatin == << "à","á","â","ã","ä","å","æ","ç","è","é","ê","ë","ì",
                 "í","î","ï","ð","ñ","ò","ó","ô","õ","ö","ø","ù","ú",
                 "û","ü","ý","þ" >>

\* str.lower() on one character
LowerChar(c) ==
    IF c \in Range(UpperCase)
    THEN LowerCase[CHOOSE i \in DOMAIN UpperCase : UpperCase[i] = c]
    ELSE IF c \in Range(UpperLatin)
    THEN LowerLatin[CHOOSE i \in DOMAIN UpperLatin : UpperLatin[i] = c]
    ELSE c

\* str.lower()
Lower(s) == [i \in DOMAIN s |-> LowerChar(s[i])]

\* the number of leading characters of s, from position i on, that satisfy P
RECURSIVE RunLetters(_, _)
RunLetters(s, i) ==
    IF i <= Len(s) /\ IsLetter(s[i]) THEN 1 + RunLetters(s, i + 1) ELSE 0

RECURSIVE RunDots(_, _)
RunDots(s, i) ==
    IF i <= Len(s) /\ s[i] = "." THEN 1 + RunDots(s, i + 1) ELSE 0

\* ------------------------------------------------------------------ validate_name_format

\* a matcher without the final $: what follows the first initial and its
\* dots is not looked at
NameMatchesPrefix(s) ==
    LET n1 == RunLetters(s, 1)
        n2 == RunDots(s, n1 + 1)
        p  == n1 + n2 + 1
    IN  /\ n1 >= 1
        /\ Len(s) >= p + 2
        /\ s[p] = ","
        /\ s[p + 1] = " "
        /\ IsLetter(s[p + 2])

\* re.match(r"^[A-Za-z]+\.*?, [A-Za-z]\.*$", name): one or more letters, dots,
\* a comma, a space, ONE letter, dots, and then the end of the string or a
\* single newline that ends the string ($ matches before a trailing newline).
\* The character classes are disjoint, so the greedy scan is the match.
NameMatches(s) ==
    LET n1 == RunLetters(s, 1)
        n2 == RunDots(s, n1 + 1)
        p  == n1 + n2 + 1            \* position of the comma
        n3 == RunDots(s, p + 3)
        e  == p + 3 + n3             \* first position after the trailing dots
    IN  /\ n1 >= 1
        /\ Len(s) >= p + 2
        /\ s[p] = ","
        /\ s[p + 1] = " "
        /\ IsLetter(s[p + 2])
        /\ \/ e = Len(s) + 1
           \/ e = Len(s) /\ s[e] = "\n"

\* validate_name_format(name) for a string cell; a cell that is no string
\* makes re.match raise TypeError (see NameCheckRaises)
validate_name_format(name) == NameMatches(name.s)

NameCheckRaises(name) == ~IsStr(name)

\* ------------------------------------------------------------------ equipment

\* str.split(','): the pieces between commas; "" splits to [""]
RECURSIVE Split(_)
Split(s) ==
    IF \E i \in DOMAIN s : s[i] = ","
    THEN LET i == CHOOSE j \in DOMAIN s :
                    s[j] = "," /\ \A h \in 1..(j - 1) : s[h] # ","
         IN  << SubSeq(s, 1, i - 1) >> \o Split(SubSeq(s, i + 1, Len(s)))
    ELSE << s >>

RECURSIVE LStrip(_)
LStrip(s) == IF s # << >> /\ IsSpace(s[1]) THEN LStrip(Tail(s)) ELSE s

RECURSIVE RStrip(_)
RStrip(s) ==
    IF s # << >> /\ IsSpace(s[Len(s)]) THEN RStrip(SubSeq(s, 1, Len(s) - 1)) ELSE s

\* str.strip()
Strip(s) == RStrip(LStrip(s))

\* the number of digits that end at position i of s, going left
RECURSIVE DigitsBack(_, _)
DigitsBack(s, i) ==
    IF i >= 1 /\ IsDigit(s[i]) THEN 1 + DigitsBack(s, i - 1) ELSE 0

\* re.sub(r'\s*\(\d+\)$', '', item): drops a trailing "(<digits>)" and the
\* white space before it
StripQuantity(s) ==
    LET n == Len(s)
        d == DigitsBack(s, n - 1)
        o == n - 1 - d               \* position of the opening parenthesis
    IN  IF n >= 3 /\ s[n] = ")" /\ d >= 1 /\ o >= 1 /\ s[o] = "("
        THEN RStrip(SubSeq(s, 1, o - 1))
        ELSE s

\* the lambda of df['Equipment'].apply on a string cell
EquipmentList(x) ==
    LET items == Split(x.s)
    IN  [i \in DOMAIN items |-> StripQuantity(Strip(items[i]))]

\* x.split raises AttributeError when x is no string (a float NaN, a number)
EquipmentRaises(x) == ~IsStr(x)

Tent == << "t","e","n","t" >>
SmallTent == << "s","m","a","l","l"," ","t","e","n","t" >>

\* the lambda of df['Equipment List'].apply
CamperFootprint(equipment) ==
    IF \E i \in DOMAIN equipment : Lower(equipment[i]) \in {Tent, SmallTent}
    THEN "tent"
    ELSE "RV"

\* ------------------------------------------------------------------ dates

IsLeap(y) == y % 4 = 0 /\ (y % 100 # 0 \/ y % 400 = 0)

DaysBeforeYear(y) ==
    (y - 1) * 365 + ((y - 1) \div 4) - ((y - 1) \div 100) + ((y - 1) \div 400)

DaysInMonth(y, m) ==
    IF m = 2 THEN (IF IsLeap(y) THEN 29 ELSE 28)
    ELSE IF m \in {4, 6, 9, 11} THEN 30 ELSE 31

RECURSIVE DaysBeforeMonth(_, _)
DaysBeforeMonth(y, m) ==
    IF m = 1 THEN 0 ELSE DaysBeforeMonth(y, m - 1) + DaysInMonth(y, m - 1)

\* date(y, m, d).toordinal()
Ord(y, m, d) == DaysBeforeYear(y) + DaysBeforeMonth(y, m) + d

\* Timestamp.year
YearOf(o) ==
    LET n0   == o - 1
        n400 == n0 \div 146097
        r400 == n0 % 146097
        n100 == r400 \div 36524
        r100 == r400 % 36524
        n4   == r100 \div 1461
        r4   == r100 % 1461
        n1   == r4 \div 365
        y    == n400 * 400 + n100 * 100 + n4 * 4 + n1 + 1
    IN  IF n1 = 4 \/ n100 = 4 THEN y - 1 ELSE y

\* Timestamp.month
MonthOf(o) ==
    LET y   == YearOf(o)
        doy == o - DaysBeforeYear(y)
    IN  CHOOSE m \in 1..12 :
            DaysBeforeMonth(y, m) < doy /\ doy <= DaysBeforeMonth(y, m) + DaysInMonth(y, m)

\* Timestamp.day
DayOf(o) == o - DaysBeforeYear(YearOf(o)) - DaysBeforeMonth(YearOf(o), MonthOf(o))

\* Timestamp.weekday(): Monday is 0
Weekday(o) == (o + 6) % 7

\* Timestamp.isocalendar().week: the week of the year of this week's Thursday
IsoWeek(o) ==
    LET th == o - Weekday(o) + 3
    IN  ((th - (DaysBeforeYear(YearOf(th)) + 1)) \div 7) + 1

MonthNames == << "January", "February", "March", "April", "May", "June", "July",
                 "August", "September", "October", "November", "December" >>
DayNames == << "Monday", "Tuesday", "Wednesday", "Thursday", "Friday", "Saturday",
               "Sunday" >>

TwoDigits(n) == << Digits[(n \div 10) + 1], Digits[(n % 10) + 1] >>

\* Series.dt.strftime('%m/%d'): NaN for NaT
StrfMonthDay(t) ==
    IF t = NaT THEN NaN
    ELSE Str(TwoDigits(MonthOf(t.d)) \o << "/" >> \o TwoDigits(DayOf(t.d)))

\* pd.to_datetime(cell, errors='coerce') on the cells the date columns of
\* the sheets hold: a date cell is kept, an empty cell becomes NaT. What it
\* makes of a text (a date where the text reads as one, NaT otherwise) or of
\* a number (a time counted from 1970) is not modelled: the operator has no
\* value there.
ToDatetime(c) ==
    CASE c.k = "date" -> c
      [] c.k = "nan"  -> NaT

\* ------------------------------------------------------------------ numbers

RECURSIVE DigitsValue(_)
DigitsValue(s) ==
    IF s = << >> THEN 0
    ELSE 10 * DigitsValue(SubSeq(s, 1, Len(s) - 1))
         + ((CHOOSE i \in DOMAIN Digits : Digits[i] = s[Len(s)]) - 1)

\* the number of digits of s from position i on
RECURSIVE RunDigits(_, _)
RunDigits(s, i) ==
    IF i <= Len(s) /\ IsDigit(s[i]) THEN 1 + RunDigits(s, i + 1) ELSE 0

RECURSIVE Pow10(_)
Pow10(n) == IF n = 0 THEN 1 ELSE 10 * Pow10(n - 1)

\* the text without the white space of C around it
RECURSIVE LStripAscii(_)
LStripAscii(s) == IF s # << >> /\ IsSpaceAscii(s[1]) THEN LStripAscii(Tail(s)) ELSE s

RECURSIVE RStripAscii(_)
RStripAscii(s) ==
    IF s # << >> /\ IsSpaceAscii(s[Len(s)]) THEN RStripAscii(SubSeq(s, 1, Len(s) - 1)) ELSE s

StripAscii(s) == RStripAscii(LStripAscii(s))

\* the text without the sign it starts with, if any
Unsigned(s) == IF s # << >> /\ s[1] \in {"-", "+"} THEN Tail(s) ELSE s

\* pandas' float parser reads a text as a number when, white space around
\* it skipped, it is an optional sign, then digits with at most one decimal
\* point and at least one digit (the mantissa), then possibly an exponent (e
\* or E, an optional sign, at least one digit), and nothing more. In the
\* operators below u is the text without white space and sign. The white
\* space the parser skips is that of C.

\* a decimal point follows the n1 leading digits of u
HasPoint(u, n1) == n1 + 1 <= Len(u) /\ u[n1 + 1] = "."

\* the number of digits after the decimal point
FractionLen(u) ==
    LET n1 == RunDigits(u, 1)
    IN  IF HasPoint(u, n1) THEN RunDigits(u, n1 + 2) ELSE 0

\* the number of characters of the mantissa
MantissaLen(u) ==
    LET n1 == RunDigits(u, 1)
    IN  IF HasPoint(u, n1) THEN n1 + 1 + RunDigits(u, n1 + 2) ELSE n1

\* the digits of the mantissa, the point left out
MantissaDigits(u) ==
    SelectSeq(SubSeq(u, 1, MantissaLen(u)), IsDigit)

\* what follows the mantissa
ExponentText(u) == SubSeq(u, MantissaLen(u) + 1, Len(u))

\* r is empty or an exponent
ExponentOk(r) ==
    \/ r = << >>
    \/ /\ r[1] \in {"e", "E"}
       /\ Unsigned(Tail(r)) # << >>
       /\ \A i \in DOMAIN Unsigned(Tail(r)) : IsDigit(Unsigned(Tail(r))[i])

\* the value of the exponent r, 0 when there is none
ExponentValue(r) ==
    IF r = << >> THEN 0
    ELSE IF Tail(r)[1] = "-" THEN 0 - DigitsValue(Unsigned(Tail(r)))
    ELSE DigitsValue(Unsigned(Tail(r)))

IsNumberText(text) ==
    /\ MantissaDigits(Unsigned(StripAscii(text))) # << >>
    /\ ExponentOk(ExponentText(Unsigned(StripAscii(text))))

\* strcasecmp folds the letters A to Z only
LowerAscii(c) ==
    IF c \in Range(UpperCase)
    THEN LowerCase[CHOOSE i \in DOMAIN UpperCase : UpperCase[i] = c]
    ELSE c

\* the texts pandas reads as an infinity when the float parser has failed,
\* whatever their case
InfTexts ==
    { << "i","n","f" >>, << "-","i","n","f" >>, << "+","i","n","f" >>,
      << "i","n","f","i","n","i","t","y" >>, << "-","i","n","f","i","n","i","t","y" >>,
      << "+","i","n","f","i","n","i","t","y" >> }

IsInfText(text) == [i \in DOMAIN text |-> LowerAscii(text[i])] \in InfTexts

\* .astype(int) raises on a value that is not finite: fillna(0) has replaced
\* the NaN of a missing or non-numeric cell, but not an infinity
CoercionRaises(c) == c.k = "str" /\ IsInfText(c.s)

\* the number a number text stands for, cut off towards zero
Truncated(text) ==
    LET u     == Unsigned(StripAscii(text))
        m     == DigitsValue(MantissaDigits(u))
        shift == ExponentValue(ExponentText(u)) - FractionLen(u)
        size  == IF shift >= 0 THEN m * Pow10(shift) ELSE m \div Pow10(0 - shift)
    IN  IF StripAscii(text)[1] = "-" THEN 0 - size ELSE size

\* pd.to_numeric(cell, errors='coerce').fillna(0).astype(int) on one cell: a
\* whole-number cell is kept; a text that parses as a number gives that
\* number cut off towards zero ('+3' -> 3, '2.5' -> 2, '-2.5' -> -2,
\* '1e2' -> 100); anything else is NaN and becomes 0. Exact for values
\* below 2^31 in size. For an infinity see CoercionRaises.
ToInt(c) ==
    IF c.k = "num" THEN c.n
    ELSE IF c.k = "str" /\ IsNumberText(c.s) THEN Truncated(c.s)
    ELSE 0

\* ------------------------------------------------------------------ header

required_columns == <<
    << "L","o","o","p" >>,
    << "S","i","t","e"," ","#" >>,
    << "R","e","s","e","r","v","a","t","i","o","n"," ","#" >>,
    << "R","e","s","e","r","v","a","t","i","o","n"," ","S","t","a","t","u","s" >>,
    << "A","r","r","i","v","a","l"," ","D","a","t","e" >>,
    << "D","e","p","a","r","t","u","r","e"," ","D","a","t","e" >>,
    << "P","r","i","m","a","r","y"," ","O","c","c","u","p","a","n","t"," ","N","a","m","e" >>,
    << "#"," ","o","f"," ","O","c","c","u","p","a","n","t","s" >>,
    << "E","q","u","i","p","m","e","n","t" >>,
    << "N","i","g","h","t","s","/"," ","D","a","y","s" >>
>>

\* all(col in row.values for col in required_columns)
HasRequiredColumns(row) ==
    \A c \in DOMAIN required_columns :
        \E j \in DOMAIN row : row[j] = Str(required_columns[c])

\* a header search that returns the last qualifying row instead of the first
header_row_index_last(g) ==
    IF \E i \in DOMAIN g : HasRequiredColumns(g[i])
    THEN (CHOOSE i \in DOMAIN g :
            HasRequiredColumns(g[i])
            /\ \A h \in (i + 1)..Len(g) : ~HasRequiredColumns(g[h])) - 1
    ELSE 0

\* df.apply(...).idxmax(): the 0-based index of the first row that holds all
\* required columns; idxmax of an all-False series is its first label, 0
header_row_index(g) ==
    IF \E i \in DOMAIN g : HasRequiredColumns(g[i])
    THEN (CHOOSE i \in DOMAIN g :
            HasRequiredColumns(g[i]) /\ \A h \in 1..(i - 1) : ~HasRequiredColumns(g[h])) - 1
    ELSE 0

\* df.columns = df.iloc[header_row_index]; row[label] is the cell in the
\* column whose header cell is the label
Cell(row, header, label) ==
    row[CHOOSE j \in DOMAIN header : header[j] = Str(label)]

\* df[header_row_index + 1:].reset_index(drop=True)
DataRows(g) == SubSeq(g, header_row_index(g) + 2, Len(g))

\* ------------------------------------------------------------------ state

VARIABLES
    grid,                          \* the sheet, as read by pd.read_excel(header=None)
    today,                         \* datetime.today().date() of this run
    pc,                            \* the stage __init__ is about to run
    error,                         \* the exception that ended the construction
    attrs,                         \* the attributes set on self so far
    original_data,                 \* self.original_data
    sampled_names,                 \* sampled_names: the sampled rows and their names
    reservations,                  \* self.reservations
    occupied_reservations_by_day,  \* self.occupied_reservations_by_day
    daily_reservation_summary,     \* self.daily_reservation_summary
    busiest_days,                  \* self.busiest_days
    WEIGHTS,                       \* the arguments of the latest busiest_day_of_week
    first_run                      \* what an earlier Reservations(input_file) on this file ended with

vars == << grid, today, pc, error, attrs, original_data, sampled_names, reservations,
           occupied_reservations_by_day, daily_reservation_summary, busiest_days,
           WEIGHTS, first_run >>

RESERVED == << "R","E","S","E","R","V","E","D" >>
CHECKED_IN == << "C","H","E","C","K","E","D","_","I","N" >>
CHECKED_OUT == << "C","H","E","C","K","E","D","_","O","U","T" >>

\* the exceptions a run can end with
NoHeaderError == "ValueError: No row found that contains all required columns."
PrivacyError == "ValueError: Names in the Primary Occupant Name column do not appear to be obfuscated for PII."
NameTypeError == "TypeError: expected string or bytes-like object"
EmptyFrameError == "ValueError: Cannot set a DataFrame with multiple columns to the single column CheckInTag"
EquipmentError == "AttributeError: float object has no attribute split"
IntCastError == "IntCastingNaNError: Cannot convert non-finite values (NA or inf) to integer"
NaTRangeError == "ValueError: Neither start nor end can be NaT"
NoNightsError == "KeyError: Occupied Date, SiteNumber, Camper Footprint, Occupants, Duration not in columns"
NoColumnError == "KeyError: duration columns not in index"

\* ------------------------------------------------------------------ process_spreadsheet

\* min(10, len(df)) rows are sampled
SampleMax == 10

sample_size(df) == IF Len(df) < SampleMax THEN Len(df) ELSE SampleMax

\* a sampler that draws with replacement: the draws can fall on the same row,
\* so that fewer rows than sample_size are looked at
SamplesWithRepeats(df) ==
    { S \in SUBSET (DOMAIN df) :
        /\ Cardinality(S) <= sample_size(df)
        /\ (sample_size(df) > 0 => S # {}) }

\* random.sample(list(df['Primary Occupant Name']), sample_size): the sets of
\* row positions a sample can consist of
Samples(df) == { S \in SUBSET (DOMAIN df) : Cardinality(S) = sample_size(df) }

\* str(x)[-6:]
Last6(s) == IF Len(s) <= 6 THEN s ELSE SubSeq(s, Len(s) - 5, Len(s))

RECURSIVE NatDigits(_)
NatDigits(n) ==
    IF n < 10 THEN << Digits[n + 1] >> ELSE NatDigits(n \div 10) \o << Digits[(n % 10) + 1] >>

\* a year in four digits
FourDigits(n) == TwoDigits(n \div 100) \o TwoDigits(n % 100)

\* str(x) of a datetime at midnight: '2025-07-08 00:00:00'
StrOfDate(d) ==
    FourDigits(YearOf(d)) \o << "-" >> \o TwoDigits(MonthOf(d)) \o << "-" >>
    \o TwoDigits(DayOf(d)) \o << " ","0","0",":","0","0",":","0","0" >>

\* str(x) of a cell: the text itself, the digits of a whole number, the
\* date and time of a date, 'nan' for an empty cell
StrOf(c) ==
    IF c.k = "str" THEN c.s
    ELSE IF c.k = "num"
    THEN (IF c.n < 0 THEN << "-" >> \o NatDigits(0 - c.n) ELSE NatDigits(c.n))
    ELSE IF c.k = "date" THEN StrOfDate(c.d)
    ELSE << "n","a","n" >>

\* f"...{str(x)[-6:]}"
ObfuscatedNumber(x) == << ".", ".", "." >> \o Last6(StrOf(x))

\* row['Arrival Date'] >= today: False for NaT
NotBefore(t, day) == t # NaT /\ t.d >= day

\* one row of self.reservations (core_attributes), from one data row
Reservation(row, header, day) ==
    LET status    == Cell(row, header, required_columns[4])
        arrival   == ToDatetime(Cell(row, header, required_columns[5]))
        departure == ToDatetime(Cell(row, header, required_columns[6]))
    IN  [ c \in { "Reservation #", "ReservationNumber", "SiteNumber", "Arrival Date",
                  "ArrivalDate", "CheckInTag", "Departure Date", "DepartureDate",
                  "Camper Footprint", "observed", "occupied", "Overnights",
                  "Occupants", "Primary Occupant Name" } |->
          CASE c = "Reservation #" -> Cell(row, header, required_columns[3])
            [] c = "ReservationNumber" ->
                   ObfuscatedNumber(Cell(row, header, required_columns[3]))
            [] c = "SiteNumber" -> Cell(row, header, required_columns[2])
            [] c = "Arrival Date" -> arrival
            [] c = "ArrivalDate" -> StrfMonthDay(arrival)
            [] c = "CheckInTag" -> NotBefore(arrival, day) /\ status = Str(RESERVED)
            [] c = "Departure Date" -> departure
            [] c = "DepartureDate" -> StrfMonthDay(departure)
            [] c = "Camper Footprint" ->
                   CamperFootprint(EquipmentList(Cell(row, header, required_columns[9])))
            [] c = "observed" -> status \in {Str(CHECKED_IN), Str(CHECKED_OUT)}
            [] c = "occupied" ->
                   status \in {Str(CHECKED_IN), Str(CHECKED_OUT), Str(RESERVED)}
            [] c = "Overnights" -> ToInt(Cell(row, header, required_columns[10]))
            [] c = "Occupants" -> ToInt(Cell(row, header, required_columns[8]))
            [] c = "Primary Occupant Name" -> Cell(row, header, required_columns[7]) ]

\* the exception process_spreadsheet raises after the header is found, or
\* "none"; S is the set of sampled row positions
ProcessError(df, header, S) ==
    LET name(i) == Cell(df[i], header, required_columns[7])
    IN  IF \E i \in S : NameCheckRaises(name(i)) THEN NameTypeError
        ELSE IF \E i \in S : ~validate_name_format(name(i)) THEN PrivacyError
        ELSE IF Len(df) = 0 THEN EmptyFrameError
        ELSE IF \E i \in DOMAIN df :
                    EquipmentRaises(Cell(df[i], header, required_columns[9]))
        THEN EquipmentError
        ELSE IF \E i \in DOMAIN df :
                    \/ CoercionRaises(Cell(df[i], header, required_columns[10]))
                    \/ CoercionRaises(Cell(df[i], header, required_columns[8]))
        THEN IntCastError
        ELSE "none"

process_spreadsheet ==
    /\ pc = "process_spreadsheet"
    /\ IF header_row_index(grid) = 0
       THEN /\ pc' = "failed"
            /\ error' = NoHeaderError
            /\ UNCHANGED << attrs, original_data, sampled_names, reservations >>
       ELSE LET header == grid[header_row_index(grid) + 1]
                df     == DataRows(grid)
            IN  \E S \in Samples(df) :
                    /\ original_data' = df
                    /\ sampled_names' =
                           [i \in S |-> Cell(df[i], header, required_columns[7])]
                    /\ IF ProcessError(df, header, S) # "none"
                       THEN /\ pc' = "failed"
                            /\ error' = ProcessError(df, header, S)
                            /\ attrs' = attrs \cup {"original_data"}
                            /\ UNCHANGED reservations
                       ELSE /\ pc' = "get_occupied_overnights"
                            /\ error' = "none"
                            /\ attrs' = attrs \cup {"original_data", "reservations"}
                            /\ reservations' =
                                   [i \in DOMAIN df |-> Reservation(df[i], header, today)]
    /\ UNCHANGED << first_run, grid, today, occupied_reservations_by_day,
                    daily_reservation_summary, busiest_days, WEIGHTS >>

\* ------------------------------------------------------------------ get_occupied_overnights

\* the duration tag of the i-th generated date (i from 0) of a stay of
\* `nights` nights
Duration(nights, i) ==
    IF nights = 1 THEN "single night"
    ELSE IF i = 0 THEN "first night"
    ELSE "continuing night"

\* the rows the loop body appends for the reservation with index label idx:
\* one per date of pd.date_range(arrival, departure - 1 day), which is empty
\* when departure <= arrival
ExpandRow(row, idx) ==
    LET arrival   == row["Arrival Date"].d
        departure == row["Departure Date"].d
        nights    == departure - arrival
        n         == IF nights > 0 THEN nights ELSE 0
    IN  [ i \in 1..n |->
            [ index              |-> idx,
              Occupied_Date      |-> arrival + (i - 1),
              SiteNumber         |-> row["SiteNumber"],
              Camper_Footprint   |-> row["Camper Footprint"],
              Occupants          |-> row["Occupants"],
              Duration           |-> Duration(nights, i - 1) ] ]

\* pd.date_range raises when its start or its end is NaT
RangeRaises(row) == row["Arrival Date"] = NaT \/ row["Departure Date"] = NaT

\* expanded_rows after the loop over self.reservations[self.reservations['occupied']],
\* from position i on
RECURSIVE ExpandFrom(_, _)
ExpandFrom(res, i) ==
    IF i > Len(res) THEN << >>
    ELSE (IF res[i]["occupied"] THEN ExpandRow(res[i], i - 1) ELSE << >>)
         \o ExpandFrom(res, i + 1)

get_occupied_overnights ==
    /\ pc = "get_occupied_overnights"
    /\ IF \E i \in DOMAIN reservations :
              reservations[i]["occupied"] /\ RangeRaises(reservations[i])
       THEN /\ pc' = "failed"
            /\ error' = NaTRangeError
            /\ UNCHANGED << attrs, occupied_reservations_by_day >>
       ELSE IF ExpandFrom(reservations, 1) = << >>
       THEN /\ pc' = "failed"
            /\ error' = NoNightsError
            /\ UNCHANGED << attrs, occupied_reservations_by_day >>
       ELSE /\ pc' = "summarize_reservations"
            /\ occupied_reservations_by_day' = ExpandFrom(reservations, 1)
            /\ attrs' = attrs \cup {"occupied_reservations_by_day"}
            /\ UNCHANGED error
    /\ UNCHANGED << first_run, grid, today, original_data, sampled_names, reservations,
                    daily_reservation_summary, busiest_days, WEIGHTS >>

\* ------------------------------------------------------------------ summarize_reservations

RECURSIVE SumOccupants(_)
SumOccupants(rows) ==
    IF rows = << >> THEN 0 ELSE Head(rows).Occupants + SumOccupants(Tail(rows))

\* a count of the rows in place of the distinct sites (count for nunique)
NRows(rows) == Len(rows)

\* Series.nunique(): the distinct values, NaN not counted
NUnique(rows) ==
    Cardinality({ rows[i].SiteNumber : i \in DOMAIN rows } \ {NaN})

\* the elements of a finite set of integers, ascending
RECURSIVE SortedSeq(_)
SortedSeq(S) ==
    IF S = {} THEN << >>
    ELSE LET m == CHOOSE x \in S : \A y \in S : x <= y
         IN  << m >> \o SortedSeq(S \ {m})

\* rename(columns={'RV': 'rv_sites', 'tent': 'tent_sites'})
FootprintColumn(f) ==
    IF f = "RV" THEN "rv_sites" ELSE IF f = "tent" THEN "tent_sites" ELSE f

\* rename(columns={'first night': ..., 'single night': ..., 'continuing night': ...})
DurationColumn(d) ==
    IF d = "first night" THEN "first_night_occupants"
    ELSE IF d = "single night" THEN "single_night_occupants"
    ELSE IF d = "continuing night" THEN "continuing_night_occupants"
    ELSE d

\* the columns unstack() makes: one per footprint that occurs in the table
FootprintsPresent(nights) == { nights[i].Camper_Footprint : i \in DOMAIN nights }

\* the columns pivot_table() makes: one per duration that occurs in the table
DurationsPresent(nights) == { nights[i].Duration : i \in DOMAIN nights }

\* the row of the merged summary for one occupied date
SummaryRow(nights, date) ==
    LET OnDate(r) == r.Occupied_Date = date
        rows == SelectSeq(nights, OnDate)
        base == { "Occupied Date", "total_sites", "total_occupants",
                  "year", "month", "week", "day" }
        fcols == { FootprintColumn(f) : f \in FootprintsPresent(nights) }
        dcols == { DurationColumn(d) : d \in DurationsPresent(nights) }
    IN  [ c \in base \cup fcols \cup dcols |->
          CASE c = "Occupied Date" -> date
            [] c = "total_sites" -> NUnique(rows)
            [] c = "total_occupants" -> SumOccupants(rows)
            [] c = "year" -> YearOf(date)
            [] c = "month" -> MonthNames[MonthOf(date)]
            [] c = "week" -> IsoWeek(date)
            [] c = "day" -> DayNames[Weekday(date) + 1]
            [] c \in fcols ->
                   LET f == CHOOSE g \in FootprintsPresent(nights) : FootprintColumn(g) = c
                       Of(r) == r.Occupied_Date = date /\ r.Camper_Footprint = f
                   IN  NUnique(SelectSeq(nights, Of))
            [] OTHER ->
                   LET d == CHOOSE g \in DurationsPresent(nights) : DurationColumn(g) = c
                       Of(r) == r.Occupied_Date = date /\ r.Duration = d
                   IN  SumOccupants(SelectSeq(nights, Of)) ]

\* groupby('Occupied Date') sorts the group keys: one row per date, ascending
Summary(nights) ==
    LET dates == SortedSeq({ nights[i].Occupied_Date : i \in DOMAIN nights })
    IN  [ i \in DOMAIN dates |-> SummaryRow(nights, dates[i]) ]

summarize_reservations ==
    /\ pc = "summarize_reservations"
    /\ pc' = "busiest_day_of_week"
    /\ daily_reservation_summary' = Summary(occupied_reservations_by_day)
    /\ attrs' = attrs \cup {"daily_reservation_summary"}
    /\ UNCHANGED << first_run, grid, today, error, original_data, sampled_names, reservations,
                    occupied_reservations_by_day, busiest_days, WEIGHTS >>

\* ------------------------------------------------------------------ busiest_day_of_week

\* the default arguments WEIGHT_FIRST, WEIGHT_SINGLE, WEIGHT_CONTINUING
DefaultWeights == << 3, 2, 1 >>

\* df.get(column, 0) of one row
Get(row, column) == IF column \in DOMAIN row THEN row[column] ELSE 0

\* df['weighted_occupants'] of one row
weighted_occupants(row, W) ==
    W[1] * Get(row, "first_night_occupants")
    + W[2] * Get(row, "single_night_occupants")
    + W[3] * Get(row, "continuing_night_occupants")

\* a ranker that takes the first day of the week, whatever its score
IdxFirst(df, W, week) ==
    CHOOSE i \in DOMAIN df :
        /\ df[i]["week"] = week
        /\ \A j \in 1..(i - 1) : df[j]["week"] # week

\* a ranker that takes the last of the days that share the maximum
IdxMaxLast(df, W, week) ==
    CHOOSE i \in DOMAIN df :
        /\ df[i]["week"] = week
        /\ \A j \in DOMAIN df :
               df[j]["week"] = week
                   => weighted_occupants(df[j], W) <= weighted_occupants(df[i], W)
        /\ \A j \in (i + 1)..Len(df) :
               df[j]["week"] = week
                   => weighted_occupants(df[j], W) < weighted_occupants(df[i], W)

\* groupby('week')['weighted_occupants'].idxmax() for one week: the position
\* of the first row of the week that attains the week's maximum
IdxMax(df, W, week) ==
    CHOOSE i \in DOMAIN df :
        /\ df[i]["week"] = week
        /\ \A j \in DOMAIN df :
               df[j]["week"] = week
                   => weighted_occupants(df[j], W) <= weighted_occupants(df[i], W)
        /\ \A j \in 1..(i - 1) :
               df[j]["week"] = week
                   => weighted_occupants(df[j], W) < weighted_occupants(df[i], W)

BusiestColumns ==
    { "week", "Occupied Date", "day", "total_occupants", "first_night_occupants",
      "single_night_occupants", "continuing_night_occupants", "weighted_occupants" }

\* df.loc[busiest_idx, [...]] raises KeyError when a listed column is missing
BusiestRaises(df) ==
    \E i \in DOMAIN df : ~(BusiestColumns \ {"weighted_occupants"} \subseteq DOMAIN df[i])

\* a selection that groups by year and week together: one row per week of
\* each year
BusiestDaysByYear(df, W) ==
    LET key(i) == df[i]["year"] * 100 + df[i]["week"]
        keys   == SortedSeq({ key(i) : i \in DOMAIN df })
        idx(k) ==
            CHOOSE i \in DOMAIN df :
                /\ key(i) = keys[k]
                /\ \A j \in DOMAIN df :
                       key(j) = keys[k]
                           => weighted_occupants(df[j], W) <= weighted_occupants(df[i], W)
                /\ \A j \in 1..(i - 1) :
                       key(j) = keys[k]
                           => weighted_occupants(df[j], W) < weighted_occupants(df[i], W)
    IN  [ k \in DOMAIN keys |->
            [ c \in BusiestColumns |->
                IF c = "weighted_occupants" THEN weighted_occupants(df[idx(k)], W)
                ELSE df[idx(k)][c] ] ]

\* df.loc[busiest_idx, [...]].sort_values('week').reset_index(drop=True)
BusiestDays(df, W) ==
    LET weeks == SortedSeq({ df[i]["week"] : i \in DOMAIN df })
    IN  [ k \in DOMAIN weeks |->
            LET row == df[IdxMax(df, W, weeks[k])]
            IN  [ c \in BusiestColumns |->
                    IF c = "weighted_occupants" THEN weighted_occupants(row, W)
                    ELSE row[c] ] ]

\* a busiest_day_of_week that works on self.daily_reservation_summary itself
\* instead of on a copy of it: the summary gains the column weighted_occupants
busiest_day_of_week_inplace(W) ==
    /\ pc \in {"busiest_day_of_week", "constructed"}
    /\ pc = "busiest_day_of_week" => W = DefaultWeights
    /\ WEIGHTS' = W
    /\ daily_reservation_summary' =
           [ i \in DOMAIN daily_reservation_summary |->
               [ c \in (DOMAIN daily_reservation_summary[i]) \cup {"weighted_occupants"} |->
                   IF c = "weighted_occupants"
                   THEN weighted_occupants(daily_reservation_summary[i], W)
                   ELSE daily_reservation_summary[i][c] ] ]
    /\ IF BusiestRaises(daily_reservation_summary)
       THEN /\ pc' = IF pc = "constructed" THEN pc ELSE "failed"
            /\ error' = NoColumnError
            /\ UNCHANGED << attrs, busiest_days >>
       ELSE /\ pc' = "constructed"
            /\ busiest_days' = BusiestDays(daily_reservation_summary, W)
            /\ attrs' = attrs \cup {"busiest_days"}
            /\ UNCHANGED error
    /\ UNCHANGED << first_run, grid, today, original_data, sampled_names, reservations,
                    occupied_reservations_by_day >>

busiest_day_of_week(W) ==
    /\ pc \in {"busiest_day_of_week", "constructed"}
    /\ pc = "busiest_day_of_week" => W = DefaultWeights
    /\ WEIGHTS' = W
    /\ IF BusiestRaises(daily_reservation_summary)
       THEN /\ pc' = IF pc = "constructed" THEN pc ELSE "failed"
            /\ error' = NoColumnError
            /\ UNCHANGED << attrs, busiest_days >>
       ELSE /\ pc' = "constructed"
            /\ busiest_days' = BusiestDays(daily_reservation_summary, W)
            /\ attrs' = attrs \cup {"busiest_days"}
            /\ UNCHANGED error
    /\ UNCHANGED << first_run, grid, today, original_data, sampled_names, reservations,
                    occupied_reservations_by_day, daily_reservation_summary >>

\* ------------------------------------------------------------------ sheets

\* the sheet of the test suite is the report of 2025-07-08 (a Tuesday)
SheetDate == Ord(2025, 7, 8)

\* bounds of the sheets the model is checked on
MaxGridRows == 4
MaxDataRows == 2
MaxNights == 3
MaxExtraRows == 1
MaxBadNames == 1
MaxNameLen == 5

\* a row of the report's preamble ("Location: ...")
MetaRow == [j \in DOMAIN required_columns |-> IF j = 1 THEN Str(<< "L","o","c","a","t","i","o","n",":"," " >>) ELSE NaN]

\* the header row of the report
HeaderRow == [j \in DOMAIN required_columns |-> Str(required_columns[j])]

\* a row that lacks one of the required labels
PartialHeaderRow ==
    [j \in DOMAIN required_columns |->
        IF j = Len(required_columns) THEN NaN ELSE Str(required_columns[j])]

CANCELLED == << "C","A","N","C","E","L","L","E","D" >>

\* a data row, its cells in the order of required_columns
DataRow(site, status, arrival, departure, name, occupants, equipment, nights) ==
    << Str(<< "A" >>), site, Str(<< "0","4","1","2","3","4","5","6","7","8" >>), status, arrival, departure, name,
       occupants, equipment, nights >>

SiteA1 == Str(<< "A","1" >>)
SiteA2 == Str(<< "A","2" >>)

\* a stay of n nights from date d on, at the given site
Stay(site, status, d, n, name, occupants, equipment) ==
    DataRow(site, status, Date(d), Date(d + n), name, Num(occupants), equipment, Num(n))

GoodName == Str(<< "S","m","i","t","h",","," ","J","." >>)
GoodName2 == Str(<< "J","o","h","n","s","o","n",","," ","M" >>)
BadName == Str(<< "J","o","h","n"," ","J","o","h","n","s","o","n" >>)

EqTent == Str(<< "T","e","n","t" >>)
EqTrailer == Str(<< "T","r","a","i","l","e","r"," ","(","2",")" >>)
EqMixed == Str(<< "R","V",","," ","S","m","a","l","l"," ","T","e","n","t"," ","(","1",")" >>)
EqBlank == Str(<< " " >>)

\* the sequences over S of length lo..hi
SeqsOf(S, lo, hi) == UNION { [1..n -> S] : n \in lo..hi }

\* sheets for the header row, the name check and the equipment column
IngestRows ==
    { MetaRow, HeaderRow, PartialHeaderRow,
      Stay(SiteA1, Str(RESERVED), SheetDate, 1, GoodName, 2, EqTent),
      Stay(SiteA2, Str(CHECKED_IN), SheetDate, 2, GoodName2, 3, EqTrailer),
      Stay(SiteA1, Str(RESERVED), SheetDate, 1, BadName, 2, EqTent),
      Stay(SiteA2, Str(RESERVED), SheetDate, 1, NaN, 1, EqTrailer),
      Stay(SiteA2, Str(RESERVED), SheetDate, 2, GoodName, 1, NaN),
      Stay(SiteA1, Str(RESERVED), SheetDate, 1, GoodName, 1, EqBlank),
      Stay(SiteA2, Str(CHECKED_OUT), SheetDate, 2, GoodName, 4, EqMixed) }

SheetsIngest == SeqsOf(IngestRows, 1, MaxGridRows)

\* sheets for the night expansion: any status, dates set or not, the
\* departure before, on or after the arrival
NightRows ==
    { DataRow(SiteA1, Str(status), arrival, departure, GoodName, Num(2), EqTent, Num(1)) :
        status \in {RESERVED, CHECKED_IN, CANCELLED},
        arrival \in {Date(SheetDate), NaN},
        departure \in { Date(SheetDate + n) : n \in (0 - 1)..MaxNights } \cup {NaN} }

SheetsNights ==
    { << MetaRow, HeaderRow >> \o rows : rows \in SeqsOf(NightRows, 0, MaxDataRows) }

\* sheets for the daily summary: sites, footprints and occupants vary
DailyRows ==
    { Stay(site, Str(RESERVED), SheetDate + a, n, GoodName, occupants, equipment) :
        site \in {SiteA1, SiteA2}, a \in {0, 1}, n \in {1, 2},
        occupants \in {1, 2}, equipment \in {EqTent, EqTrailer} }

SheetsDaily ==
    { << MetaRow, HeaderRow >> \o rows : rows \in SeqsOf(DailyRows, 0, MaxDataRows) }

\* sheets for the busiest day: stays on Tuesday, Wednesday and Sunday of one
\* week, the Sunday stays reaching into the next week
BusiestRows ==
    { Stay(SiteA1, Str(CHECKED_IN), SheetDate + a, n, GoodName, occupants, EqTent) :
        a \in {0, 1, 5}, n \in {1, 2}, occupants \in {1, 2} }

SheetsBusiest ==
    { << MetaRow, HeaderRow >> \o rows : rows \in SeqsOf(BusiestRows, 0, MaxDataRows + 1) }

\* the cells a count column ('Nights/ Days', '# of Occupants') can hold: a
\* number, a number in text (signed, with a fraction, with a carriage
\* return after it), text that is no number, nothing
CountCells ==
    { Num(2), Num(0), Num(0 - 1), Str(<< "3" >>), Str(<< "-","2" >>),
      Str(<< "+","3" >>), Str(<< "2",".","5" >>), Str(<< "4","\r" >>),
      Str(<< "i","n","f" >>),
      Str(<< "t","w","o" >>), NaN }

\* sheets for the count columns: a stay of one night and a stay of two
\* nights, their count cells varying
SheetsCounts ==
    { << MetaRow, HeaderRow,
         DataRow(SiteA1, Str(CHECKED_IN), Date(SheetDate), Date(SheetDate + 1),
                 GoodName, o1, EqTent, Num(1)),
         DataRow(SiteA2, Str(CHECKED_IN), Date(SheetDate), Date(SheetDate + 2),
                 GoodName2, o2, EqTrailer, n2) >> :
        o1 \in CountCells, o2 \in CountCells, n2 \in CountCells }

\* the data row at position i of a long sheet: stays of one night and of two
\* nights in turn
LongRow(i, name) ==
    Stay(SiteA1, Str(CHECKED_IN), SheetDate, IF i % 2 = 1 THEN 1 ELSE 2, name, 1, EqTent)

\* sheets for the name sample: about as many data rows as the sample takes,
\* up to MaxBadNames of them with a name that is not obfuscated or is missing
SheetsSample ==
    UNION { UNION { { << MetaRow, HeaderRow >>
                      \o [ i \in 1..n |-> LongRow(i, IF i \in B THEN bad[i] ELSE GoodName) ] :
                      bad \in [B -> {BadName, NaN}] } :
                    B \in { X \in SUBSET (1..n) : Cardinality(X) <= MaxBadNames } } :
            n \in (SampleMax - 1)..(SampleMax + MaxExtraRows) }

\* sheets whose CheckInTag depends on the day of the run: stays that arrive
\* on the day of the report or the day after, reserved or checked in
ArrivalRows ==
    { Stay(SiteA1, Str(status), SheetDate + a, n, GoodName, 2, EqTent) :
        status \in {RESERVED, CHECKED_IN}, a \in {0, 1}, n \in {1, 2} }

SheetsArrivals ==
    { << MetaRow, HeaderRow >> \o rows : rows \in SeqsOf(ArrivalRows, 0, MaxDataRows) }

\* the characters the names are made of: a letter, the dot, the comma, the
\* space and the newline
NameChars == { "a", ".", ",", " ", "\n" }

\* sheets for the shape of the names: two stays with a good name and one
\* whose name is any text of one to MaxNameLen characters, or one of the
\* three names of the documentation (an empty text is an empty cell, which
\* the sheets of IngestRows hold)
SheetsNames ==
    { << MetaRow, HeaderRow, LongRow(1, GoodName), LongRow(2, GoodName2), LongRow(3, name) >> :
        name \in { Str(s) : s \in SeqsOf(NameChars, 1, MaxNameLen) }
                   \cup {GoodName, GoodName2, BadName} }

\* the days from the day of the report to the same weekday of the same ISO
\* week one year later (2026-07-07)
YearApart == Ord(2026, 7, 7) - SheetDate

\* sheets for the week key: stays in one ISO week of two years
YearRows ==
    { Stay(SiteA1, Str(CHECKED_IN), SheetDate + a, n, GoodName, occupants, EqTent) :
        a \in {0, 1, YearApart}, n \in {1, 2}, occupants \in {1, 2} }

SheetsYears ==
    { << MetaRow, HeaderRow >> \o rows : rows \in SeqsOf(YearRows, 0, MaxDataRows + 1) }

\* the days a run can take place on
TodayChoices == {SheetDate, SheetDate + 1}

\* the weights busiest_day_of_week is called with
Weights == { DefaultWeights, << 2, 2, 1 >>, << 1, 1, 2 >>, << 0, 0, 0 >> }

\* ------------------------------------------------------------------ specification

\* Reservations.__init__ before its first stage, on one of the sheets and on
\* one of the days
InitOn(sheets, days) ==
    /\ grid \in sheets
    /\ today \in days
    /\ pc = "process_spreadsheet"
    /\ error = "none"
    /\ attrs = {"input_file"}
    /\ original_data = << >>
    /\ sampled_names = << >>
    /\ reservations = << >>
    /\ occupied_reservations_by_day = << >>
    /\ daily_reservation_summary = << >>
    /\ busiest_days = << >>
    /\ WEIGHTS = DefaultWeights
    /\ first_run = << >>

Init ==
    InitOn(SheetsIngest \cup SheetsNights \cup SheetsDaily \cup SheetsBusiest, TodayChoices)

Next ==
    \/ process_spreadsheet
    \/ get_occupied_overnights
    \/ summarize_reservations
    \/ \E W \in Weights : busiest_day_of_week(W)

Spec == Init /\ [][Next]_vars

InitIngest == InitOn(SheetsIngest, TodayChoices)
SpecIngest == InitIngest /\ [][Next]_vars

InitNights == InitOn(SheetsNights, TodayChoices)
SpecNights == InitNights /\ [][Next]_vars

\* no row of these sheets depends on the day of the run beyond its CheckInTag
InitDaily == InitOn(SheetsDaily, {SheetDate})
SpecDaily == InitDaily /\ [][Next]_vars

InitBusiest == InitOn(SheetsBusiest, {SheetDate})
SpecBusiest == InitBusiest /\ [][Next]_vars

InitCounts == InitOn(SheetsCounts, {SheetDate})
SpecCounts == InitCounts /\ [][Next]_vars

InitSample == InitOn(SheetsSample, {SheetDate})
SpecSample == InitSample /\ [][Next]_vars

\* a run that has ended, with the tables or with an exception
Finished == pc \in {"constructed", "failed"}

\* Reservations(input_file) once more on the unchanged file, on the same day
\* or a later one: a new object, whose stages start over; the outcome and the
\* tables of the run before are kept for comparison
run_again ==
    /\ Finished
    /\ first_run = << >>
    /\ first_run' =
           << [ pc                           |-> pc,
                error                        |-> error,
                tables                       |-> attrs,
                reservations                 |-> reservations,
                occupied_reservations_by_day |-> occupied_reservations_by_day,
                daily_reservation_summary    |-> daily_reservation_summary,
                busiest_days                 |-> busiest_days,
                WEIGHTS                      |-> WEIGHTS ] >>
    /\ today' \in { d \in TodayChoices : d >= today }
    /\ pc' = "process_spreadsheet"
    /\ error' = "none"
    /\ attrs' = {"input_file"}
    /\ original_data' = << >>
    /\ sampled_names' = << >>
    /\ reservations' = << >>
    /\ occupied_reservations_by_day' = << >>
    /\ daily_reservation_summary' = << >>
    /\ busiest_days' = << >>
    /\ WEIGHTS' = DefaultWeights
    /\ UNCHANGED grid

NextTwice == Next \/ run_again

InitTwice == InitOn(SheetsSample \cup SheetsArrivals, TodayChoices)
SpecTwice == InitTwice /\ [][NextTwice]_vars

InitNames == InitOn(SheetsNames, {SheetDate})
SpecNames == InitNames /\ [][Next]_vars

InitYears == InitOn(SheetsYears, {SheetDate})
SpecYears == InitYears /\ [][Next]_vars

\* ------------------------------------------------------------------ claims

\* the tables the four stages set on self
Tables ==
    { "reservations", "occupied_reservations_by_day", "daily_reservation_summary",
      "busiest_days" }

\* a sampled value that is not of the obfuscated shape: a string the pattern
\* rejects, or no string at all
FailsShapeCheck(name) == IF IsStr(name) THEN ~NameMatches(name.s) ELSE TRUE

BadNameSampled == \E i \in DOMAIN sampled_names : FailsShapeCheck(sampled_names[i])

\* C1: whenever a sampled 'Primary Occupant Name' fails the obfuscation-shape
\* check, the construction fails with the privacy validation error and none
\* of the four tables is produced.
C1_PrivacyGateIsFatal ==
    BadNameSampled =>
        /\ pc = "failed"
        /\ error = PrivacyError
        /\ attrs \cap Tables = {}

\* C1, the part the code keeps: a bad sampled name ends the run before any
\* table is produced, with the privacy error or with the TypeError of re.match.
C1_NoTableAfterBadSample ==
    BadNameSampled =>
        /\ pc = "failed"
        /\ error \in {PrivacyError, NameTypeError}
        /\ attrs \cap Tables = {}

\* the positions of the grid rows that hold all ten required labels
HeaderCandidates == { i \in DOMAIN grid : HasRequiredColumns(grid[i]) }

\* the first of them
FirstCandidate == CHOOSE i \in HeaderCandidates : \A j \in HeaderCandidates : i <= j

\* the reservation made from grid row r under the header row h
MadeFrom(res, r, h) ==
    /\ res["Reservation #"] = Cell(grid[r], grid[h], required_columns[3])
    /\ res["SiteNumber"] = Cell(grid[r], grid[h], required_columns[2])
    /\ res["Primary Occupant Name"] = Cell(grid[r], grid[h], required_columns[7])
    /\ res["Arrival Date"] = ToDatetime(Cell(grid[r], grid[h], required_columns[5]))
    /\ res["Departure Date"] = ToDatetime(Cell(grid[r], grid[h], required_columns[6]))
    /\ res["Occupants"] = ToInt(Cell(grid[r], grid[h], required_columns[8]))

\* C3: the header is the first grid row that holds all ten required labels;
\* when there is none, or it is row 0, the run fails with the schema error
\* and produces no table; otherwise the Reservation table, once produced, has
\* one record per grid row after the header row, in the same order.
C3_HeaderLocation ==
    pc # "process_spreadsheet" =>
        IF HeaderCandidates = {} \/ FirstCandidate = 1
        THEN /\ pc = "failed"
             /\ error = NoHeaderError
             /\ attrs \cap (Tables \cup {"original_data"}) = {}
        ELSE /\ error # NoHeaderError
             /\ "reservations" \in attrs =>
                    /\ Len(reservations) = Len(grid) - FirstCandidate
                    /\ \A i \in DOMAIN reservations :
                           MadeFrom(reservations[i], FirstCandidate + i, FirstCandidate)

\* C3 witness: a table of two reservations was produced from a sheet whose
\* first row lacks a label and whose second row is the header.
C3_Witness ==
    /\ "reservations" \in attrs
    /\ Len(reservations) = 2
    /\ grid[1] = PartialHeaderRow
    /\ reservations[1] # reservations[2]

\* get_occupied_overnights has run (to its end or to an exception)
ExpanderActed ==
    /\ "reservations" \in attrs
    /\ pc \notin {"process_spreadsheet", "get_occupied_overnights"}

DatesSet(res) == res["Arrival Date"] # NaT /\ res["Departure Date"] # NaT

\* the nights of a stay: (departure - arrival).days
NightsOf(res) == res["Departure Date"].d - res["Arrival Date"].d

\* the OccupiedNight rows made from the reservation at position i
NightsFrom(i) ==
    LET From(r) == r.index = i - 1
    IN  SelectSeq(occupied_reservations_by_day, From)

\* the rows C2 asks of an occupied reservation with both dates set: one per
\* date of [arrival, departure), in order, tagged by position
RightlyExpanded(res, rows) ==
    LET n == NightsOf(res)
    IN  /\ Len(rows) = (IF n > 0 THEN n ELSE 0)
        /\ \A k \in DOMAIN rows :
              /\ rows[k].Occupied_Date = res["Arrival Date"].d + (k - 1)
              /\ rows[k].Duration =
                     (IF n = 1 THEN "single night"
                      ELSE IF k = 1 THEN "first night" ELSE "continuing night")
        /\ n > 0 =>
              Cardinality({ k \in DOMAIN rows :
                              rows[k].Duration \in {"first night", "single night"} }) = 1

\* C2: once get_occupied_overnights has run, every occupied reservation with
\* both dates set has one OccupiedNight row per date of [arrival, departure),
\* tagged single / first / continuing, zero rows without a failure when the
\* departure is not after the arrival; a reservation that is not occupied has
\* no row.
C2_NightExpansion ==
    ExpanderActed =>
        \A i \in DOMAIN reservations :
            IF reservations[i]["occupied"]
            THEN DatesSet(reservations[i]) =>
                    /\ "occupied_reservations_by_day" \in attrs
                    /\ RightlyExpanded(reservations[i], NightsFrom(i))
            ELSE NightsFrom(i) = << >>

\* C2, the part the code keeps: whenever the OccupiedNight table is produced,
\* its rows are those C2 describes.
C2_NightExpansionWhenProduced ==
    "occupied_reservations_by_day" \in attrs =>
        /\ \A i \in DOMAIN reservations :
              IF reservations[i]["occupied"]
              THEN DatesSet(reservations[i])
                   /\ RightlyExpanded(reservations[i], NightsFrom(i))
              ELSE NightsFrom(i) = << >>
        /\ \A k \in DOMAIN occupied_reservations_by_day :
              occupied_reservations_by_day[k].index + 1 \in DOMAIN reservations

\* C4: an occupied reservation with a null arrival or departure date
\* contributes no OccupiedNight row and the run does not fail on it.
C4_NullDatesNonFatal ==
    ExpanderActed =>
        \A i \in DOMAIN reservations :
            (reservations[i]["occupied"] /\ ~DatesSet(reservations[i])) =>
                /\ error # NaTRangeError
                /\ NightsFrom(i) = << >>

\* no reservation of the sheet yields a night: each is either not occupied or
\* has both dates set and its departure not after its arrival
NoNightAtAll ==
    \A i \in DOMAIN reservations :
        reservations[i]["occupied"] =>
            DatesSet(reservations[i]) /\ NightsOf(reservations[i]) <= 0

\* C5: a sheet that passes the header and name checks and yields no
\* OccupiedNight row is constructed without error, and its OccupiedNight,
\* DailySummary and BusiestDay tables exist and are empty.
C5_EmptyResultIsValid ==
    (ExpanderActed /\ NoNightAtAll) =>
        /\ error = "none"
        /\ pc \in {"summarize_reservations", "busiest_day_of_week", "constructed"}
        /\ occupied_reservations_by_day = << >>
        /\ pc = "constructed" =>
              /\ Tables \subseteq attrs
              /\ daily_reservation_summary = << >>
              /\ busiest_days = << >>

\* the equipment list C6 describes: a missing or blank field is the empty list
ClaimedEquipmentList(x) ==
    IF ~IsStr(x) THEN << >>
    ELSE IF Strip(x.s) = << >> THEN << >>
    ELSE EquipmentList(x)

\* the footprint C6 describes
ClaimedFootprint(equipment) ==
    IF \E i \in DOMAIN equipment : Lower(equipment[i]) \in {Tent, SmallTent} THEN "tent"
    ELSE IF equipment # << >> THEN "RV"
    ELSE "unknown"

\* the raw Equipment cell of the data row at position i
EquipmentCell(i) ==
    Cell(original_data[i], grid[header_row_index(grid) + 1], required_columns[9])

\* C6: once the header is found and the sampled names pass, the equipment
\* column raises no error, and every Reservation row's camper_footprint is
\* tent, RV or unknown as its equipment list says: unknown exactly when the
\* list is empty, which a missing or blank Equipment field makes it.
C6_FootprintClassification ==
    ("original_data" \in attrs /\ ~BadNameSampled /\ Len(original_data) > 0) =>
        /\ error # EquipmentError
        /\ "reservations" \in attrs
        /\ \A i \in DOMAIN reservations :
              /\ reservations[i]["Camper Footprint"] \in {"tent", "RV", "unknown"}
              /\ reservations[i]["Camper Footprint"]
                     = ClaimedFootprint(ClaimedEquipmentList(EquipmentCell(i)))
              /\ reservations[i]["Camper Footprint"] = "unknown"
                     <=> ClaimedEquipmentList(EquipmentCell(i)) = << >>

\* C6, the part the code keeps: a produced Reservation row is tent when an
\* item of its equipment list is "tent" or "small tent" in any case, and RV
\* otherwise; the code has no third value.
C6_TentOrRV ==
    "reservations" \in attrs =>
        \A i \in DOMAIN reservations :
            /\ IsStr(EquipmentCell(i))
            /\ reservations[i]["Camper Footprint"] =
                   (IF \E k \in DOMAIN EquipmentList(EquipmentCell(i)) :
                          Lower(EquipmentList(EquipmentCell(i))[k]) \in {Tent, SmallTent}
                    THEN "tent" ELSE "RV")

\* the category columns of DailySummary
CategoryColumns ==
    { "rv_sites", "tent_sites", "first_night_occupants", "single_night_occupants",
      "continuing_night_occupants" }

\* the OccupiedNight rows of one date
NightsOn(date) ==
    LET On(r) == r.Occupied_Date = date
    IN  SelectSeq(occupied_reservations_by_day, On)

\* C7: every DailySummary row carries all five category columns, 0 for a
\* category without an OccupiedNight row on that date, and the busiest-day
\* ranker does not fail on a non-empty DailySummary.
C7_CategoriesNeverAbsent ==
    "daily_reservation_summary" \in attrs =>
        /\ \A i \in DOMAIN daily_reservation_summary :
              LET row == daily_reservation_summary[i]
                  rows == NightsOn(row["Occupied Date"])
              IN  /\ CategoryColumns \subseteq DOMAIN row
                  /\ (\A k \in DOMAIN rows : rows[k].Camper_Footprint # "tent")
                         => row["tent_sites"] = 0
                  /\ (\A k \in DOMAIN rows : rows[k].Camper_Footprint # "RV")
                         => row["rv_sites"] = 0
                  /\ (\A k \in DOMAIN rows : rows[k].Duration # "first night")
                         => row["first_night_occupants"] = 0
                  /\ (\A k \in DOMAIN rows : rows[k].Duration # "single night")
                         => row["single_night_occupants"] = 0
                  /\ (\A k \in DOMAIN rows : rows[k].Duration # "continuing night")
                         => row["continuing_night_occupants"] = 0
        /\ error # NoColumnError

\* the sum of the occupants of the rows at the positions in P
RECURSIVE OccupantsAt(_, _)
OccupantsAt(rows, P) ==
    IF P = {} THEN 0
    ELSE LET k == CHOOSE x \in P : TRUE
         IN  rows[k].Occupants + OccupantsAt(rows, P \ {k})

\* C8: DailySummary has exactly one row per distinct occupied date of the
\* OccupiedNight table; its total_occupants is the sum of the occupants of
\* that date's rows and its total_sites the number of distinct sites among
\* them.
C8_DailyAggregation ==
    "daily_reservation_summary" \in attrs =>
        LET nights == occupied_reservations_by_day
            daily  == daily_reservation_summary
            dates  == { nights[k].Occupied_Date : k \in DOMAIN nights }
        IN  /\ { daily[i]["Occupied Date"] : i \in DOMAIN daily } = dates
            /\ Len(daily) = Cardinality(dates)
            /\ \A i \in DOMAIN daily :
                  LET P == { k \in DOMAIN nights :
                               nights[k].Occupied_Date = daily[i]["Occupied Date"] }
                  IN  /\ daily[i]["total_occupants"] = OccupantsAt(nights, P)
                      /\ daily[i]["total_sites"]
                             = Cardinality({ nights[k].SiteNumber : k \in P })

\* C8 witness: a date on which one site holds two overlapping reservations:
\* two OccupiedNight rows, one site, the occupants of both summed.
C8_Witness ==
    /\ "daily_reservation_summary" \in attrs
    /\ \E i \in DOMAIN daily_reservation_summary :
          LET row == daily_reservation_summary[i]
              rows == NightsOn(row["Occupied Date"])
          IN  /\ Len(rows) = 2
              /\ rows[1].SiteNumber = rows[2].SiteNumber
              /\ row["total_sites"] = 1
              /\ row["total_occupants"] = 3
    /\ Len(daily_reservation_summary) > 1

\* the weighted score C9 defines, of a DailySummary row under weights W
Score(row, W) ==
    W[1] * row["first_night_occupants"]
    + W[2] * row["single_night_occupants"]
    + W[3] * row["continuing_night_occupants"]

\* the DailySummary row a BusiestDay row was taken from
IsChosenRow(b, d) ==
    /\ d["Occupied Date"] = b["Occupied Date"]
    /\ d["week"] = b["week"]
    /\ d["day"] = b["day"]
    /\ d["total_occupants"] = b["total_occupants"]
    /\ d["first_night_occupants"] = b["first_night_occupants"]
    /\ d["single_night_occupants"] = b["single_night_occupants"]
    /\ d["continuing_night_occupants"] = b["continuing_night_occupants"]

\* the BusiestDay table is the one C9 describes, for the weights of the
\* latest call
RightlySelected ==
    "busiest_days" \in attrs =>
        LET daily == daily_reservation_summary
            weeks == { daily[i]["week"] : i \in DOMAIN daily }
        IN  /\ { busiest_days[k]["week"] : k \in DOMAIN busiest_days } = weeks
            /\ Len(busiest_days) = Cardinality(weeks)
            /\ \A k \in DOMAIN busiest_days : \A l \in DOMAIN busiest_days :
                   k < l => busiest_days[k]["week"] < busiest_days[l]["week"]
            /\ \A k \in DOMAIN busiest_days :
                   LET b == busiest_days[k]
                   IN  /\ \E i \in DOMAIN daily : IsChosenRow(b, daily[i])
                       /\ b["weighted_occupants"] = Score(b, WEIGHTS)
                       /\ \A i \in DOMAIN daily :
                              daily[i]["week"] = b["week"]
                                  => Score(daily[i], WEIGHTS) <= b["weighted_occupants"]

\* C9: the constructor ranks with the weights (3, 2, 1), and under the
\* weights of the latest call BusiestDay has exactly one row per distinct week
\* of DailySummary, in ascending week order; each is a DailySummary row of
\* that week with its weighted_occupants
\* w_first*first + w_single*single + w_continuing*continuing, and no
\* DailySummary row of the week has a larger weighted score.
C9_BusiestDaySelection ==
    /\ []RightlySelected
    /\ [][pc = "busiest_day_of_week" => WEIGHTS' = << 3, 2, 1 >>]_vars

\* C9 witness: two weeks are present, and in one of them the chosen day has a
\* strictly larger score than another day of the week, under weights other
\* than the default.
C9_Witness ==
    /\ "busiest_days" \in attrs
    /\ WEIGHTS = << 1, 1, 2 >>
    /\ Len(busiest_days) = 2
    /\ \E i \in DOMAIN daily_reservation_summary :
          /\ daily_reservation_summary[i]["week"] = busiest_days[1]["week"]
          /\ Score(daily_reservation_summary[i], WEIGHTS)
                 < busiest_days[1]["weighted_occupants"]
          /\ Score(daily_reservation_summary[i], DefaultWeights)
                 > Score(busiest_days[1], DefaultWeights)

\* the positions of the DailySummary rows of a week that attain its maximal
\* weighted score
MaximalRows(week) ==
    LET daily == daily_reservation_summary
    IN  { i \in DOMAIN daily :
            /\ daily[i]["week"] = week
            /\ \A j \in DOMAIN daily :
                   daily[j]["week"] = week
                       => Score(daily[j], WEIGHTS) <= Score(daily[i], WEIGHTS) }

\* C10: DailySummary is in ascending order of occupied date, and the
\* BusiestDay row of a week is the first, in that order, of the rows of the
\* week that share the maximal weighted score.
C10_TieBreakFirst ==
    "busiest_days" \in attrs =>
        LET daily == daily_reservation_summary
        IN  /\ \A i \in DOMAIN daily : \A j \in DOMAIN daily :
                   i < j => daily[i]["Occupied Date"] < daily[j]["Occupied Date"]
            /\ \A k \in DOMAIN busiest_days :
                   LET M == MaximalRows(busiest_days[k]["week"])
                       first == CHOOSE i \in M : \A j \in M : i <= j
                   IN  IsChosenRow(busiest_days[k], daily[first])

\* C10 witness: two days of one week share the maximal score under non-zero
\* weights, and the earlier one is reported.
C10_Witness ==
    /\ "busiest_days" \in attrs
    /\ WEIGHTS # << 0, 0, 0 >>
    /\ \E k \in DOMAIN busiest_days :
          /\ Cardinality(MaximalRows(busiest_days[k]["week"])) >= 2
          /\ busiest_days[k]["weighted_occupants"] > 0
          /\ \A i \in MaximalRows(busiest_days[k]["week"]) :
                 busiest_days[k]["Occupied Date"]
                     <= daily_reservation_summary[i]["Occupied Date"]

\* the raw cell of the data row at position i in the column of the label
RawCell(i, label) ==
    Cell(original_data[i], grid[header_row_index(grid) + 1], label)

\* a cell that is missing or holds no number: no text, or text without a digit
NotNumeric(c) ==
    IF IsStr(c) THEN \A i \in DOMAIN c.s : ~IsDigit(c.s[i]) ELSE c.k # "num"

\* a cell with the text of an infinity
IsInfCell(c) == IsStr(c) /\ Lower(c.s) \in InfTexts

\* the columns the counts are read from
NightsLabel == required_columns[10]
OccupantsLabel == required_columns[8]

\* a count cell of the sheet holds the text of an infinity
InfInCounts ==
    \E i \in DOMAIN original_data :
        IsInfCell(RawCell(i, NightsLabel)) \/ IsInfCell(RawCell(i, OccupantsLabel))

\* once the header is found and the names pass, the coercion of the count
\* columns stops the run exactly when a count cell reads 'inf'; in the
\* table every count is an integer, and a missing or non-numeric cell counts
\* as 0
C11_CoercionToZero ==
    /\ (pc # "process_spreadsheet" /\ header_row_index(grid) # 0 /\ ~BadNameSampled)
           => /\ "reservations" \in attrs <=> ~InfInCounts
              /\ (pc = "failed" /\ error = IntCastError) <=> InfInCounts
    /\ "reservations" \in attrs =>
           \A i \in DOMAIN reservations :
              /\ reservations[i]["Overnights"] \in Int
              /\ reservations[i]["Occupants"] \in Int
              /\ NotNumeric(RawCell(i, NightsLabel)) => reservations[i]["Overnights"] = 0
              /\ NotNumeric(RawCell(i, OccupantsLabel)) => reservations[i]["Occupants"] = 0

\* the coercion does not stop the run
C11_CoercionNeverFails ==
    (pc # "process_spreadsheet" /\ header_row_index(grid) # 0 /\ ~BadNameSampled)
        => "reservations" \in attrs

\* every count of the table is a non-negative integer
C11_CountsNonNegative ==
    "reservations" \in attrs =>
        \A i \in DOMAIN reservations :
           /\ reservations[i]["Overnights"] \in Nat
           /\ reservations[i]["Occupants"] \in Nat

\* C11: for every Reservation row, overnights and occupants are non-negative
\* integers; a missing or non-numeric 'Nights/ Days' or '# of Occupants'
\* value becomes 0, and the coercion never fails.
C11_CountCoercion ==
    /\ C11_CoercionNeverFails
    /\ C11_CountsNonNegative
    /\ "reservations" \in attrs =>
           \A i \in DOMAIN reservations :
              /\ NotNumeric(RawCell(i, NightsLabel)) => reservations[i]["Overnights"] = 0
              /\ NotNumeric(RawCell(i, OccupantsLabel)) => reservations[i]["Occupants"] = 0

NameLabel == required_columns[7]

\* the data rows whose name is not of the obfuscated shape
BadNameRows == { i \in DOMAIN original_data : FailsShapeCheck(RawCell(i, NameLabel)) }

\* C12: the guard checks min(10, number of data rows) distinct rows; so a
\* sheet of at most 10 data rows has every name checked and is rejected on
\* every run when it holds a name that does not conform, and only a sheet of
\* more than 10 data rows can be accepted with such a name in it.
C12_SampleCoverage ==
    "original_data" \in attrs =>
        /\ DOMAIN sampled_names \subseteq DOMAIN original_data
        /\ Cardinality(DOMAIN sampled_names)
               = (IF Len(original_data) < 10 THEN Len(original_data) ELSE 10)
        /\ \A i \in DOMAIN sampled_names : sampled_names[i] = RawCell(i, NameLabel)
        /\ (Len(original_data) <= 10 /\ BadNameRows # {})
               => (pc = "failed" /\ attrs \cap Tables = {})
        /\ ("reservations" \in attrs /\ BadNameRows # {}) => Len(original_data) > 10

\* C12 witness: a sheet of more than 10 data rows, one of them with a name
\* that does not conform, has passed the guard because the sample missed it.
C12_Witness ==
    /\ "reservations" \in attrs
    /\ Len(original_data) > 10
    /\ BadNameRows # {}
    /\ DOMAIN sampled_names \cap BadNameRows = {}

\* a sheet of exactly 10 data rows with a bad name has been rejected
C12_RejectedAtTen ==
    /\ pc = "failed"
    /\ Len(original_data) = 10
    /\ BadNameRows # {}

\* a Reservation table without the column that is computed from the day of the run
WithoutCheckInTag(res) ==
    [ i \in DOMAIN res |-> [ c \in (DOMAIN res[i]) \ {"CheckInTag"} |-> res[i][c] ] ]

\* the second of two runs on one file has ended, and busiest_day_of_week was
\* last called with the same weights in both
BothRunsEnded == first_run # << >> /\ Finished /\ WEIGHTS = first_run[1].WEIGHTS

\* the two runs ended alike: both with the same exception, or both with the
\* same four tables (CheckInTag set aside)
SameOutcome ==
    /\ pc = first_run[1].pc
    /\ error = first_run[1].error
    /\ attrs \cap Tables = first_run[1].tables \cap Tables
    /\ WithoutCheckInTag(reservations) = WithoutCheckInTag(first_run[1].reservations)
    /\ occupied_reservations_by_day = first_run[1].occupied_reservations_by_day
    /\ daily_reservation_summary = first_run[1].daily_reservation_summary
    /\ busiest_days = first_run[1].busiest_days

\* C13: two runs of the whole pipeline on the same unchanged input file end
\* with the same outcome and, when they succeed, with identical Reservation,
\* OccupiedNight, DailySummary and BusiestDay tables; what is derived from
\* the wall clock is set aside.
C13_Idempotence == BothRunsEnded => SameOutcome

\* two runs end alike whenever the sample takes in every data row
C13_IdempotentWhenAllSampled ==
    (BothRunsEnded /\ Len(DataRows(grid)) <= SampleMax) => SameOutcome

\* two runs that both succeed give every reservation the same CheckInTag
C13_SameCheckInTag ==
    (BothRunsEnded /\ pc = "constructed" /\ first_run[1].pc = "constructed")
        => reservations = first_run[1].reservations

\* s is letters, then dots, then ", ", then letters, then dots: the comma at
\* p, the last family-name letter at a, the last given-name letter at b
ClaimedShape(s) ==
    \E p \in DOMAIN s :
        /\ s[p] = ","
        /\ p + 1 <= Len(s) /\ s[p + 1] = " "
        /\ \E a \in 1..(p - 1) :
              /\ \A i \in 1..a : IsLetter(s[i])
              /\ \A i \in (a + 1)..(p - 1) : s[i] = "."
        /\ \E b \in (p + 2)..Len(s) :
              /\ \A i \in (p + 2)..b : IsLetter(s[i])
              /\ \A i \in (b + 1)..Len(s) : s[i] = "."

\* s is letters, then dots, then ", ", then ONE letter, then dots, and
\* possibly one newline at the very end
InitialShape(s) ==
    \E p \in DOMAIN s :
        /\ s[p] = ","
        /\ p + 1 <= Len(s) /\ s[p + 1] = " "
        /\ \E a \in 1..(p - 1) :
              /\ \A i \in 1..a : IsLetter(s[i])
              /\ \A i \in (a + 1)..(p - 1) : s[i] = "."
        /\ p + 2 <= Len(s) /\ IsLetter(s[p + 2])
        /\ \E e \in {Len(s) - 1, Len(s)} :
              /\ e >= p + 2
              /\ e < Len(s) => s[Len(s)] = "\n"
              /\ \A i \in (p + 3)..e : s[i] = "."

\* every name of the sheet is a string and has been through the check
AllNamesChecked ==
    /\ "original_data" \in attrs
    /\ DOMAIN sampled_names = DOMAIN original_data
    /\ \A i \in DOMAIN sampled_names : IsStr(sampled_names[i])

\* the check has turned the sheet down
Rejected == pc = "failed" /\ error = PrivacyError

\* C14: validate_name_format accepts a name exactly when it is one or more
\* letters, zero or more dots, a comma and a single space, one or more
\* letters, zero or more trailing dots, with nothing before and nothing
\* after; 'Smith, J.' and 'Johnson, M' are accepted, 'John Johnson' is not.
C14_ObfuscationShape ==
    /\ validate_name_format(GoodName)
    /\ validate_name_format(GoodName2)
    /\ ~validate_name_format(BadName)
    /\ AllNamesChecked =>
           (Rejected <=> \E i \in DOMAIN sampled_names : ~ClaimedShape(sampled_names[i].s))

\* C14, amended: validate_name_format accepts a name exactly when it is one
\* or more letters, zero or more dots, a comma and a single space, exactly
\* one letter, zero or more trailing dots, with nothing before and nothing
\* after but possibly one final newline; 'Smith, J.' and 'Johnson, M' are
\* accepted, 'John Johnson' is not.
C14_InitialShape ==
    /\ validate_name_format(GoodName)
    /\ validate_name_format(GoodName2)
    /\ ~validate_name_format(BadName)
    /\ AllNamesChecked =>
           (Rejected <=> \E i \in DOMAIN sampled_names : ~InitialShape(sampled_names[i].s))

\* C14 witness: a sheet is turned down for a name with two letters after the
\* space, which the shape with "one or more letters" would let through.
C14_Witness ==
    /\ AllNamesChecked
    /\ Rejected
    /\ \E i \in DOMAIN sampled_names :
          ClaimedShape(sampled_names[i].s) /\ ~InitialShape(sampled_names[i].s)

\* a sheet is let through with a name that ends in a newline
C14_NewlineAccepted ==
    /\ AllNamesChecked
    /\ "reservations" \in attrs
    /\ \E i \in DOMAIN sampled_names :
          LET s == sampled_names[i].s IN s # << >> /\ s[Len(s)] = "\n"

\* the sheet has a 'Location:' line above its header
HasLocationLine ==
    \E i \in 1..header_row_index(grid) : grid[i] = MetaRow

\* C15: after a successful construction the object has the attributes
\* location and run_date, taken from the 'Location:' and 'Run Date and Time:'
\* lines of the sheet; where a line is absent the attribute exists and is
\* unset, and the construction does not fail for it.
C15_MetadataExposed ==
    pc = "constructed" => {"location", "run_date"} \subseteq attrs

\* the attributes a run sets on the object are the file name and the tables,
\* whether or not the sheet has a 'Location:' line
C15_AttributesSet ==
    /\ attrs \subseteq {"input_file", "original_data"} \cup Tables
    /\ pc = "constructed" => attrs = {"input_file", "original_data"} \cup Tables

\* a sheet without a 'Location:' line has been read to the end
C15_ConstructedWithoutLocation == pc = "constructed" /\ ~HasLocationLine

\* a sheet with a 'Location:' line has been read to the end
C15_ConstructedWithLocation == pc = "constructed" /\ HasLocationLine

\* the stages follow one another in the order of __init__, each setting its
\* own table and no other; busiest_day_of_week can be called again on the
\* constructed object
StagesInOrder ==
    /\ pc = "process_spreadsheet" =>
           /\ pc' \in {"get_occupied_overnights", "failed"}
           /\ (attrs' \ attrs) \cap Tables \subseteq {"reservations"}
    /\ pc = "get_occupied_overnights" =>
           /\ pc' \in {"summarize_reservations", "failed"}
           /\ attrs' \ attrs \subseteq {"occupied_reservations_by_day"}
    /\ pc = "summarize_reservations" =>
           /\ pc' \in {"busiest_day_of_week", "failed"}
           /\ attrs' \ attrs \subseteq {"daily_reservation_summary"}
    /\ pc = "busiest_day_of_week" =>
           /\ pc' \in {"constructed", "failed"}
           /\ attrs' \ attrs \subseteq {"busiest_days"}
    /\ pc = "constructed" =>
           /\ pc' = "constructed"
           /\ attrs' = attrs
    /\ attrs \subseteq attrs'

\* no stage changes the table of a stage before it
PredecessorsKept ==
    /\ pc # "process_spreadsheet" => reservations' = reservations
    /\ pc \notin {"process_spreadsheet", "get_occupied_overnights"} =>
           occupied_reservations_by_day' = occupied_reservations_by_day
    /\ pc \in {"busiest_day_of_week", "constructed"} =>
           /\ daily_reservation_summary' = daily_reservation_summary
           /\ \A i \in DOMAIN daily_reservation_summary' :
                  "weighted_occupants" \notin DOMAIN daily_reservation_summary'[i]

\* the table that ranking the rows of daily with the weights W gives: for
\* each week of daily, in ascending order, its first row of maximal score
RankedTable(daily, W) ==
    LET weeks == { daily[i]["week"] : i \in DOMAIN daily }
        nth(k) == CHOOSE w \in weeks : Cardinality({ v \in weeks : v < w }) = k - 1
        best(w) ==
            CHOOSE i \in DOMAIN daily :
                /\ daily[i]["week"] = w
                /\ \A j \in DOMAIN daily :
                       daily[j]["week"] = w =>
                           \/ Score(daily[j], W) < Score(daily[i], W)
                           \/ Score(daily[j], W) = Score(daily[i], W) /\ i <= j
    IN  [ k \in 1..Cardinality(weeks) |->
            [ c \in BusiestColumns |->
                IF c = "weighted_occupants" THEN Score(daily[best(nth(k))], W)
                ELSE daily[best(nth(k))][c] ] ]

\* a call of busiest_day_of_week that returns replaces BusiestDay by the
\* table that DailySummary and the weights of the call determine
BusiestReplaced ==
    (pc \in {"busiest_day_of_week", "constructed"} /\ pc' = "constructed")
        => busiest_days' = RankedTable(daily_reservation_summary, WEIGHTS')

\* C16: the stages run in the fixed order ingest, night expansion, daily
\* aggregation, busiest-day selection, and none changes the table of a
\* predecessor; busiest_day_of_week, called any number of times with any
\* weights, leaves Reservation, OccupiedNight and DailySummary unchanged
\* (DailySummary never gains weighted_occupants) and replaces BusiestDay by a
\* table that depends only on DailySummary and the weights.
C16_StageFrame == [][StagesInOrder /\ PredecessorsKept /\ BusiestReplaced]_vars

\* C16 witness: on the constructed object busiest_day_of_week has been called
\* again with other weights; BusiestDay is no longer the constructor's table,
\* and DailySummary has no column weighted_occupants.
C16_Witness ==
    /\ pc = "constructed"
    /\ Tables \subseteq attrs
    /\ WEIGHTS # DefaultWeights
    /\ busiest_days = RankedTable(daily_reservation_summary, WEIGHTS)
    /\ busiest_days # RankedTable(daily_reservation_summary, DefaultWeights)
    /\ \A i \in DOMAIN daily_reservation_summary :
           "weighted_occupants" \notin DOMAIN daily_reservation_summary[i]

\* the pairs of DailySummary rows that lie in different years and carry the
\* same week number
SameWeekOtherYear ==
    LET daily == daily_reservation_summary
    IN  { p \in (DOMAIN daily) \X (DOMAIN daily) :
            /\ daily[p[1]]["year"] # daily[p[2]]["year"]
            /\ daily[p[1]]["week"] = daily[p[2]]["week"] }

\* the dates BusiestDay reports
ReportedDates == { busiest_days[k]["Occupied Date"] : k \in DOMAIN busiest_days }

\* C17: the key of the busiest-day grouping is the ISO week number alone,
\* without the year: two dates of different years with the same week number
\* are in one group, so BusiestDay never has more rows than there are
\* distinct week numbers (at most 53), and of such dates only one is reported.
C17_WeekNumberKey ==
    "busiest_days" \in attrs =>
        LET daily == daily_reservation_summary
            weeks == { daily[i]["week"] : i \in DOMAIN daily }
        IN  /\ weeks \subseteq 1..53
            /\ Len(busiest_days) <= Cardinality(weeks)
            /\ Len(busiest_days) <= 53
            /\ \A k \in DOMAIN busiest_days : \A l \in DOMAIN busiest_days :
                   busiest_days[k]["week"] = busiest_days[l]["week"] => k = l
            /\ \A k \in DOMAIN busiest_days : \A i \in DOMAIN daily :
                   daily[i]["week"] = busiest_days[k]["week"]
                       => Score(daily[i], WEIGHTS) <= busiest_days[k]["weighted_occupants"]
            /\ \A p \in SameWeekOtherYear :
                   ~({ daily[p[1]]["Occupied Date"], daily[p[2]]["Occupied Date"] }
                         \subseteq ReportedDates)

\* C17 witness: DailySummary has two dates a year apart with the same week
\* number, and BusiestDay has a single row for that week.
C17_Witness ==
    /\ "busiest_days" \in attrs
    /\ \E p \in SameWeekOtherYear :
          LET w == daily_reservation_summary[p[1]]["week"]
          IN  /\ Cardinality({ k \in DOMAIN busiest_days : busiest_days[k]["week"] = w }) = 1
              /\ daily_reservation_summary[p[1]]["Occupied Date"] \in ReportedDates
              /\ daily_reservation_summary[p[2]]["Occupied Date"] \notin ReportedDates

====
